---- MODULE Spec2Model ----
(***************************************************************************)
(* Staged menu-extraction pipeline (backend/core/extraction/phase1..4.py). *)
(*                                                                         *)
(* A request slot holds one stage run: the stage driver                    *)
(* (extract_all_pages), the bounded run it is waiting for                  *)
(* (_bounded_gather: a fresh asyncio.Semaphore and asyncio.gather over the *)
(* units) and the unit extractors (extract_page / extract_category /      *)
(* extract_category_base / extract_category_addons) with their retry      *)
(* loops.  asyncio runs one task at a time and switches only at an await,  *)
(* so one action is the code between two suspension points of one task:    *)
(* the semaphore acquire, the LLM call and the backoff sleep.              *)
(***************************************************************************)
EXTENDS Integers, Sequences, FiniteSets, TLC

\* ------------------------------------------------------------- bounds
\* request slots: extract requests that may be in progress at once
MaxSlots == 2
\* pages of an input document / of a PDF
MaxPages == 2
\* units (pages, or categories over all pages) of one stage run
MaxUnits == 2
\* configured concurrency limits tried besides the default
MaxCap == 1
\* units of each of two stage runs in progress at once
MaxPairUnits == 1
\* categories a Stage 1 response lists for a page
MaxFound == 1
\* extract requests of the followed job served at once
MaxRequests == 1
\* rows of extraction_history the followed job may collect
MaxEvents == 5
\* items of one grouping of a category
MaxItems == 3
\* categories of a document whose items are counted
MaxCounted == 2

\* ------------------------------------------------- program constants
\* Settings.MAX_CONCURRENCY default
MAX_CONCURRENCY == 4
\* asyncio.sleep(1) between attempts
BackoffDelay == 1

Slots == 1..MaxSlots
Stages == 1..4

\* max_retries of the unit extractor of each stage
max_retriesUniform(stage) == 2
max_retries(stage) ==
    CASE stage = 1 -> 2
      [] stage = 2 -> 3
      [] stage = 3 -> 2
      [] stage = 4 -> 2

\* self.max_concurrency = max_concurrency or get_settings().MAX_CONCURRENCY
\* (None and 0 are falsy: the configured value is used)
EffectiveConcurrencyAsGiven(max_concurrency, configured) == max_concurrency
EffectiveConcurrency(max_concurrency, configured) ==
    IF max_concurrency = 0 THEN configured ELSE max_concurrency

\* --------------------------------------------------------------- errors
NoError == [kind |-> "none", attempt |-> -1]
\* ValueError("LLM returned invalid JSON ...: JSON decode error at position ...")
\* built from the JSONDecodeError of the attempt it is raised in
JsonError(attempt) == [kind |-> "json", attempt |-> attempt]
\* pydantic ValidationError raised by model_validate on the attempt's response
ValidationError(attempt) == [kind |-> "validation", attempt |-> attempt]
\* LLMClientError("LLM call failed: ...") raised by LLMClient.generate
ProviderError(attempt) == [kind |-> "provider", attempt |-> attempt]
\* ValueError("All retry attempts failed")
GenericError == [kind |-> "generic", attempt |-> -1]

\* what an LLM call can come back with
RespKinds == {"ok", "badjson", "invalid", "provider"}

\* the exception an attempt ends with, by the kind of its response
AttemptError(kind, attempt) ==
    CASE kind = "badjson" -> JsonError(attempt)
      [] kind = "invalid" -> ValidationError(attempt)
      [] kind = "provider" -> ProviderError(attempt)

\* ------------------------------------------------------------ records
\* a category-shaped record of a stage document: has = "category" (Stage 1,
\* Categories.categories[i]), "items" (CategoryWithItems), "base"
\* (CategoryBase), "addons" (CategoryItemAddons); base names the CategoryBase
\* a Stage 4 record was extracted with
Cat(name, has, base) == [name |-> name, has |-> has, base |-> base]
NoCat == Cat(0, "none", 0)
NoResult == [has |-> "none"]

\* a record no schema accepts (a required field missing, a wrong type)
Malformed == Cat(0, "malformed", 0)

\* <Schema>.model_validate(record): accepted, or rejected with an exception
model_validate(rec) == rec.has # "malformed"

\* the input of one unit of work: the page it reads and, in Stages 2-4, its
\* category and (Stage 4) its category base
UnitInput(page, cat, base) == [page |-> page, cat |-> cat, base |-> base]

\* what the message of a unit extractor's exception names of its unit (0:
\* not named): the ValueError built for a JSON parse failure names the page
\* in Stage 1, the category and the page in Stage 2, the category alone in
\* Stages 3 and 4; a ValidationError, an LLMClientError and the
\* ValueError("All retry attempts failed") are raised as they are
ErrorNames(stage, e, input) ==
    IF e.kind # "json" THEN [page |-> 0, cat |-> 0]
    ELSE CASE stage = 1 -> [page |-> input.page, cat |-> 0]
           [] stage = 2 -> [page |-> input.page, cat |-> input.cat.name]
           [] OTHER -> [page |-> 0, cat |-> input.cat.name]

\* a unit of work: the coroutine _run(coro) of one unit extractor call.
\* attempt, last_error are the locals of the retry loop; calls, delay,
\* firstOk and allBad record what happened to it
NewUnit(input) ==
    [st |-> "waiting", input |-> input, attempt |-> 0, last_error |-> NoError,
     res |-> NoResult, err |-> NoError,
     calls |-> 0, delay |-> 0, firstOk |-> -1, allBad |-> TRUE]

Finished(u) == u.st \in {"done", "failed"}

\* -------------------------------------------------- the unit extractor
\* the head of one loop iteration: build the prompt and await llm.generate
BeginAttempt(u) == [u EXCEPT !.st = "calling", !.calls = @ + 1]

\* if attempt < max_retries - 1
ShouldRetry(attempt, maxr) == attempt < maxr - 1

\* await asyncio.sleep(1); continue
Backoff(u) == [u EXCEPT !.st = "sleeping", !.delay = @ + BackoffDelay]

\* the exception leaves the unit extractor: the task holds it and the frame
\* with the loop's locals is gone
Fail(u, e) ==
    [u EXCEPT !.st = "failed", !.err = e, !.attempt = 0, !.last_error = NoError]

\* except Exception as e: last_error = e; retry or re-raise e
OuterExceptKeepFirst(stage, u, e) ==
    LET w == [u EXCEPT !.last_error = IF @ = NoError THEN e ELSE @]
    IN  IF ShouldRetry(u.attempt, max_retries(stage))
        THEN Backoff(w) ELSE Fail(w, w.last_error)
OuterExceptProviderFatal(stage, u, e) ==
    LET w == [u EXCEPT !.last_error = e]
    IN  IF e.kind # "provider" /\ ShouldRetry(u.attempt, max_retries(stage))
        THEN Backoff(w) ELSE Fail(w, e)
OuterExcept(stage, u, e) ==
    LET w == [u EXCEPT !.last_error = e]
    IN  IF ShouldRetry(u.attempt, max_retries(stage))
        THEN Backoff(w) ELSE Fail(w, e)

\* except json.JSONDecodeError: retry after the delay, or raise ValueError,
\* which the enclosing except Exception then handles on the same attempt
JsonExceptFallThrough(stage, u) ==
    IF ShouldRetry(u.attempt, max_retries(stage))
    THEN Backoff(OuterExcept(stage, u, JsonError(u.attempt)))
    ELSE OuterExcept(stage, u, JsonError(u.attempt))
JsonExcept(stage, u) ==
    IF ShouldRetry(u.attempt, max_retries(stage))
    THEN Backoff(u)
    ELSE OuterExcept(stage, u, JsonError(u.attempt))

\* what the response of this attempt was (bookkeeping of the LLM stub)
Observe(u, kind) ==
    [u EXCEPT !.firstOk = IF kind = "ok" /\ @ = -1 THEN u.attempt ELSE @,
              !.allBad = @ /\ kind = "badjson"]

\* return validated.model_dump()
\* (the task holds the record; the frame with the loop's locals is gone)
Succeed(stage, u, payload) ==
    [u EXCEPT !.st = "done", !.res = payload, !.attempt = 0, !.last_error = NoError]

\* the rest of the loop iteration once llm.generate has returned or raised:
\* json.loads, model_validate, and the two except clauses
\* obj = json.loads(raw) of a response that parses: the record the stub
\* answered with, or one that lacks a required field
Parsed(kind, payload) == IF kind = "ok" THEN payload ELSE Malformed

OnResponseUnvalidated(stage, u, kind, payload) ==
    LET o == Observe(u, kind)
    IN  CASE kind = "provider" -> OuterExcept(stage, o, AttemptError(kind, u.attempt))
          [] kind = "badjson" -> JsonExcept(stage, o)
          [] OTHER -> Succeed(stage, o, Parsed(kind, payload))
OnResponse(stage, u, kind, payload) ==
    LET o == Observe(u, kind)
    IN  CASE kind = "provider" -> OuterExcept(stage, o, AttemptError(kind, u.attempt))
          [] kind = "badjson" -> JsonExcept(stage, o)
          [] OTHER ->
               IF model_validate(Parsed(kind, payload))
               THEN Succeed(stage, o, Parsed(kind, payload))
               ELSE OuterExcept(stage, o, AttemptError("invalid", u.attempt))

\* the loop after `continue`: the next iteration of range(max_retries), or,
\* with the range used up, the statement after the loop:
\* raise last_error if last_error else ValueError("All retry attempts failed")
AfterSleep(stage, u) ==
    IF u.attempt + 1 < max_retries(stage)
    THEN BeginAttempt([u EXCEPT !.attempt = @ + 1])
    ELSE Fail(u, IF u.last_error # NoError THEN u.last_error ELSE GenericError)

\* the validated record an accepted response yields for a unit
Payload(stage, input, found) ==
    CASE stage = 1 ->
           [has |-> "page", page_number |-> input.page,
            data |-> [k \in 1..found |-> Cat(k, "category", 0)]]
      [] stage = 2 -> Cat(input.cat.name, "items", 0)
      [] stage = 3 -> Cat(input.cat.name, "base", 0)
      [] stage = 4 -> Cat(input.cat.name, "addons", input.base.name)

\* -------------------------------------------------------------- state
VARIABLES
    limit,   \* get_settings().MAX_CONCURRENCY as configured for the process
    req,     \* slot -> the stage driver of the request in the slot
    units,   \* slot -> the unit tasks of the driver's latest _bounded_gather
    sem,     \* slot -> _value of the semaphore of that _bounded_gather
    gath,    \* slot -> the future asyncio.gather returned to the driver
    files,   \* StorageService: the PDF and the JSON files of the followed job
    db,      \* the rows of restaurants, phase_data, extraction_history of it
    resp     \* the response the API sent last (for a PUT: with its request)

vars == <<limit, req, units, sem, gath, files, db, resp>>

NoDoc == [pages |-> <<>>]
NoOut == [kind |-> "none", doc |-> NoDoc, exc |-> NoError]
\* via: "direct" for a call of run_phase<k>, "route" for one made by an
\* extract endpoint.  pc: "called", "gather" while the driver runs;
\* "returned", "raised" after a direct call; "answered" while tasks of an
\* answered request are still running
\* script: the responses a scripted LLM stub gives the run, unit by unit
\* and attempt by attempt (NoScript: the stub answers as it likes)
NoScript == <<>>
IdleReq ==
    [stage |-> 0, pc |-> "idle", via |-> "none", images |-> 0, items |-> NoDoc,
     bases |-> NoDoc, max_concurrency |-> 0, page |-> 0, acc |-> <<>>,
     nsub |-> 0, out |-> NoOut, script |-> NoScript]
\* a response: the endpoint's stage, the HTTP status, and the document
\* (data) or the exception (detail) of an extract endpoint
NoResp == [stage |-> 0, http |-> 0, out |-> NoOut]
Response(stage, http, out) == [stage |-> stage, http |-> http, out |-> out]
\* st, exc, results: the state of the future; by: the child whose exception
\* it holds; nfinished: gather's counter; first: the child that finished first
PendingGather ==
    [st |-> "pending", exc |-> NoError, results |-> <<>>, by |-> 0,
     nfinished |-> 0, first |-> 0]

\* IndexError of images[page_number - 1]
IndexError == [kind |-> "index", attempt |-> -1]

\* ------------------------------------------------------ _bounded_gather
\* Semaphore.acquire does not wait while _value > 0
CanAcquireAlways(value) == TRUE
CanAcquire(value) == value > 0

\* asyncio wakes the waiters of a semaphore first come first served, and the
\* tasks of gather start in the order of its arguments
NextWaiting(us) ==
    IF \E i \in 1..Len(us) : us[i].st = "waiting"
    THEN CHOOSE i \in 1..Len(us) :
            /\ us[i].st = "waiting"
            /\ \A j \in 1..(i - 1) : us[j].st # "waiting"
    ELSE 0

\* results = [fut.result() for fut in children]: in argument order
ResultList(us) == [i \in 1..Len(us) |-> us[i].res]

\* the results with the one of the child that finished first moved to the front
FirstDoneFirst(us, first) ==
    [k \in 1..Len(us) |->
        IF k = 1 THEN us[first].res
        ELSE IF k <= first THEN us[k - 1].res ELSE us[k].res]

\* gather's callback on a finished child i of the children us
\* (return_exceptions=False): the first exception becomes the outer future's
\* exception at once; the outer future gets the result list when every child
\* has finished
GatherOnDoneSwallow(g, i, us) ==
    LET g1 == [g EXCEPT !.nfinished = @ + 1, !.first = IF @ = 0 THEN i ELSE @]
    IN  IF g.st # "pending" THEN g1
        ELSE IF g1.nfinished = Len(us)
        THEN [g1 EXCEPT !.st = "result", !.results = ResultList(us)]
        ELSE g1
GatherOnDoneUnordered(g, i, us) ==
    LET g1 == [g EXCEPT !.nfinished = @ + 1, !.first = IF @ = 0 THEN i ELSE @]
    IN  IF g.st # "pending" THEN g1
        ELSE IF us[i].st = "failed"
        THEN [g1 EXCEPT !.st = "exc", !.exc = us[i].err, !.by = i]
        ELSE IF g1.nfinished = Len(us)
        THEN [g1 EXCEPT !.st = "result", !.results = FirstDoneFirst(us, g1.first)]
        ELSE g1
GatherOnDone(g, i, us) ==
    LET g1 == [g EXCEPT !.nfinished = @ + 1, !.first = IF @ = 0 THEN i ELSE @]
    IN  IF g.st # "pending" THEN g1
        ELSE IF us[i].st = "failed"
        THEN [g1 EXCEPT !.st = "exc", !.exc = us[i].err, !.by = i]
        ELSE IF g1.nfinished = Len(us)
        THEN [g1 EXCEPT !.st = "result", !.results = ResultList(us)]
        ELSE g1

AllFinished(us) == \A j \in 1..Len(us) : Finished(us[j])

\* the tasks, the semaphore and the future of a bounded run are garbage
\* once the tasks are done and the endpoint has answered
Forget(r) ==
    /\ req' = [req EXCEPT ![r] = IdleReq]
    /\ units' = [units EXCEPT ![r] = <<>>]
    /\ sem' = [sem EXCEPT ![r] = 0]
    /\ gath' = [gath EXCEPT ![r] = PendingGather]

\* sem = asyncio.Semaphore(self.max_concurrency); gather(*(_run(c) ...)):
\* the state right after the call, before any child task has run
StartGatherInPlace(r, inputs, rq) ==
    /\ units' = [units EXCEPT ![r] = [i \in 1..Len(inputs) |-> NewUnit(inputs[i])]]
    /\ sem' = [sem EXCEPT ![r] = rq.max_concurrency]
    /\ gath' = [gath EXCEPT ![r] =
            IF Len(inputs) = 0 THEN [PendingGather EXCEPT !.st = "result"]
            ELSE PendingGather]
    /\ req' = [req EXCEPT ![r] =
            [rq EXCEPT !.pc = "gather", !.nsub = @ + Len(inputs), !.bases = NoDoc]]
StartGather(r, inputs, rq) ==
    /\ units' = [units EXCEPT ![r] = [i \in 1..Len(inputs) |-> NewUnit(inputs[i])]]
    /\ sem' = [sem EXCEPT ![r] = rq.max_concurrency]
    /\ gath' = [gath EXCEPT ![r] =
            IF Len(inputs) = 0 THEN [PendingGather EXCEPT !.st = "result"]
            ELSE PendingGather]
    /\ req' = [req EXCEPT ![r] =
            [rq EXCEPT !.pc = "gather", !.nsub = @ + Len(inputs)]]

\* one unit task ran up to its next suspension point and is now u2; a task
\* that finished has left `async with sem` and gather's callback has run
UnitStepReleaseOnSleep(r, i, u2) ==
    LET us == [units[r] EXCEPT ![i] = u2]
    IN  IF Finished(u2) /\ req[r].pc = "answered" /\ AllFinished(us)
        THEN Forget(r)
        ELSE IF Finished(u2)
        THEN /\ units' = [units EXCEPT ![r] = us]
             /\ sem' = [sem EXCEPT ![r] = @ + 1]
             /\ gath' = [gath EXCEPT ![r] = GatherOnDone(@, i, us)]
             /\ UNCHANGED req
        ELSE /\ units' = [units EXCEPT ![r] = us]
             /\ sem' = [sem EXCEPT ![r] = IF u2.st = "sleeping" THEN @ + 1 ELSE @]
             /\ UNCHANGED <<req, gath>>
UnitStep(r, i, u2) ==
    LET us == [units[r] EXCEPT ![i] = u2]
    IN  IF Finished(u2) /\ req[r].pc = "answered" /\ AllFinished(us)
        THEN Forget(r)
        ELSE IF Finished(u2)
        THEN /\ units' = [units EXCEPT ![r] = us]
             /\ sem' = [sem EXCEPT ![r] = @ + 1]
             /\ gath' = [gath EXCEPT ![r] = GatherOnDone(@, i, us)]
             /\ UNCHANGED req
        ELSE /\ units' = [units EXCEPT ![r] = us]
             /\ UNCHANGED <<req, sem, gath>>

\* async with sem: the next waiting task enters and runs to its LLM call
Admit(r) ==
    LET i == NextWaiting(units[r])
    IN  /\ i # 0
        /\ CanAcquire(sem[r])
        /\ units' = [units EXCEPT ![r][i] = BeginAttempt(@)]
        /\ sem' = [sem EXCEPT ![r] = @ - 1]
        /\ UNCHANGED <<limit, req, gath, files, db, resp>>

\* the LLM stub: a direct run is answered in every way; the runs of the
\* followed job get a good response or a provider failure, and its PDF
\* shows MaxFound categories on every page
Responses(rq) == IF rq.via = "route" THEN {"ok", "provider"} ELSE RespKinds

\* the responses the stub may give unit i on its current attempt
Answers(rq, i, attempt) ==
    IF rq.script = NoScript THEN Responses(rq) ELSE {rq.script[i][attempt + 1]}

\* the numbers of categories a response to the unit may list (a Stage 1
\* response lists the page's categories; the other stages are given theirs)
Listed(rq, kind) ==
    IF kind # "ok" \/ rq.stage # 1 THEN {0}
    ELSE IF rq.via = "route" \/ rq.script # NoScript THEN {MaxFound}
    ELSE 0..MaxFound

\* llm.generate returns or raises, and the unit runs on to its next await
LLMReturn(r, i) ==
    /\ i \in 1..Len(units[r])
    /\ units[r][i].st = "calling"
    /\ \E kind \in Answers(req[r], i, units[r][i].attempt) :
       \E found \in Listed(req[r], kind) :
          /\ UnitStep(r, i,
                OnResponse(req[r].stage, units[r][i], kind,
                           Payload(req[r].stage, units[r][i].input, found)))
    /\ UNCHANGED <<limit, files, db, resp>>

\* asyncio.sleep(1) is over
Wake(r, i) ==
    /\ i \in 1..Len(units[r])
    /\ units[r][i].st = "sleeping"
    /\ UnitStep(r, i, AfterSleep(req[r].stage, units[r][i]))
    /\ UNCHANGED <<limit, files, db, resp>>

\* ------------------------------------------------------ stage drivers
Min(a, b) == IF a < b THEN a ELSE b

\* a Python list of length n accepts the index idx (negative ones count
\* from the end)
PyIndexOK(n, idx) == -n <= idx /\ idx < n

\* Stage 1: one coroutine per page image, enumerate(images, start=1)
Stage1Inputs(images) == [p \in 1..images |-> UnitInput(p, NoCat, NoCat)]

\* Stages 2 and 3: one coroutine per category of the page
PageInputsButLast(page_number, cats) ==
    [i \in 1..(Len(cats) - 1) |-> UnitInput(page_number, cats[i], NoCat)]
PageInputs(page_number, cats) ==
    [i \in 1..Len(cats) |-> UnitInput(page_number, cats[i], NoCat)]

\* Stage 4: zip(page_categories, page_bases)
ZipInputs(page_number, cats, bases) ==
    [i \in 1..Min(Len(cats), Len(bases)) |->
        UnitInput(page_number, cats[i], bases[i])]

\* the pages the driver's for loop visits: the input document's pages, in
\* Stage 4 zip(items_payload["pages"], bases_payload["pages"])
LoopLen(rq) ==
    IF rq.stage = 4
    THEN Min(Len(rq.items.pages), Len(rq.bases.pages))
    ELSE Len(rq.items.pages)

\* the schemas form a partial order: a record of schema a has the fields of
\* schema b and more
Refines(a, b) ==
    <<a, b>> \in {<<"items", "category">>, <<"base", "category">>,
                  <<"addons", "items">>, <<"addons", "category">>}

Rejected == [has |-> "rejected"]

\* <Schema>.model_validate(rec).model_dump(): a validated record serializes
\* to itself and validates again to the same record; a record of a richer
\* schema is cut down to the schema's fields; any other one is rejected
Validated(schema, rec) ==
    IF rec.has = schema THEN rec
    ELSE IF Refines(rec.has, schema) THEN Cat(rec.name, schema, 0)
    ELSE Rejected

\* the schema a driver validates the categories of its documents with:
\* Categories in Stage 2, CategoryWithItems in Stages 3 and 4, and
\* CategoryBase for the bases of Stage 4
InputSchemaOneBehind(stage, arg) ==
    IF arg = "bases" THEN "base" ELSE "category"
InputSchema(stage, arg) ==
    IF arg = "bases" THEN "base"
    ELSE IF stage = 2 THEN "category" ELSE "items"

\* [<Schema>.model_validate(cat).model_dump() for cat in ...]
ValidatedCats(schema, cats) ==
    [i \in 1..Len(cats) |-> Validated(schema, cats[i])]

\* the units of the page at position p of the loop
LoopInputs(rq, p) ==
    LET pg == rq.items.pages[p]
        schema == InputSchema(rq.stage, "items")
    IN  CASE rq.stage = 2 ->
               PageInputs(pg.page_number, ValidatedCats(schema, pg.data))
          [] rq.stage = 3 ->
               PageInputs(pg.page_number, ValidatedCats(schema, pg.categories))
          [] rq.stage = 4 ->
               ZipInputs(pg.page_number, ValidatedCats(schema, pg.categories),
                         ValidatedCats(InputSchema(4, "bases"),
                                       rq.bases.pages[p].categories))

\* pydantic ValidationError raised by the driver's validation of its input
UpstreamInvalid == [kind |-> "upstream_invalid", attempt |-> -1]

\* the driver's validation of the page at position p of the loop:
\* Categories.model_validate(page["data"]) in Stage 2, every category with
\* CategoryWithItems in Stages 3 and 4, every base with CategoryBase in Stage 4
PageValid(rq, p) ==
    LET pg == rq.items.pages[p]
        cats == IF rq.stage = 2 THEN pg.data ELSE pg.categories
        bases == IF rq.stage = 4 THEN rq.bases.pages[p].categories ELSE <<>>
    IN  /\ \A i \in 1..Len(cats) :
              Validated(InputSchema(rq.stage, "items"), cats[i]) # Rejected
        /\ \A i \in 1..Len(bases) :
              Validated(InputSchema(rq.stage, "bases"), bases[i]) # Rejected

\* {"page_number": page_number, "categories": category_results}
PageResult(page_number, results) ==
    [page_number |-> page_number, categories |-> results]

\* ---------------------------------------------- storage and database
\* a JSON file of the job directory
NoFile == [exists |-> FALSE, doc |-> NoDoc]
File(doc) == [exists |-> TRUE, doc |-> doc]

\* pdf: the page count of uploads/<job>.pdf (0: no file); raw1:
\* phase1_categories_raw.json; doc[1]: phase1_categories_reviewed.json;
\* doc[2..4]: phase2_items.json, phase3_bases.json, phase4_final.json
NoFiles == [pdf |-> 0, raw1 |-> NoFile, doc |-> [k \in Stages |-> NoFile]]

\* the route's save_json calls after a run: Stage 1 writes the raw and the
\* reviewed file, the other stages their one file
SaveOutput(f, stage, result) ==
    IF stage = 1
    THEN [f EXCEPT !.raw1 = File(result), !.doc[1] = File(result)]
    ELSE [f EXCEPT !.doc[stage] = File(result)]

\* a row of restaurants (phase, json, status) or of phase_data
NoRow == [exists |-> FALSE, phase |-> 0, json |-> NoDoc, status |-> "none"]
Row(phase, json, status) ==
    [exists |-> TRUE, phase |-> phase, json |-> json, status |-> status]
\* a row of extraction_history
Event(phase, action) == [phase |-> phase, action |-> action, status |-> "success"]

EmptyDb ==
    [restaurant |-> NoRow, phase_data |-> [k \in Stages |-> NoRow],
     history |-> <<>>]

\* restaurant.status = "phase<k>_complete"
CompleteStatus(stage) ==
    CASE stage = 1 -> "phase1_complete"
      [] stage = 2 -> "phase2_complete"
      [] stage = 3 -> "phase3_complete"
      [] stage = 4 -> "phase4_complete"

\* the committed session of an extract endpoint: the restaurant row created
\* (Stage 1) or updated, the phase_data row upserted, the extraction logged
ExtractCommitInsertOnly(d, stage, result) ==
    [d EXCEPT !.restaurant = Row(stage, result, CompleteStatus(stage)),
              !.phase_data[stage] =
                    IF @.exists THEN @ ELSE Row(stage, result, "success"),
              !.history = Append(@, Event(stage, "extract"))]
ExtractCommit(d, stage, result) ==
    [d EXCEPT !.restaurant = Row(stage, result, CompleteStatus(stage)),
              !.phase_data[stage] = Row(stage, result, "success"),
              !.history = Append(@, Event(stage, "extract"))]

\* the committed session of a PUT endpoint (nothing without a restaurant
\* row): restaurant.json replaced, the phase_data row updated if there is
\* one, the edit logged
UpdateCommit(d, stage, data) ==
    IF ~d.restaurant.exists THEN d
    ELSE [d EXCEPT !.restaurant.json = data,
                   !.phase_data[stage] =
                        IF @.exists THEN [@ EXCEPT !.json = data] ELSE @,
                   !.history = Append(@, Event(stage, "manual_edit"))]

\* the slot of an extract request once its endpoint has answered
Release(r, rq) ==
    IF AllFinished(units[r])
    THEN Forget(r)
    ELSE /\ req' = [req EXCEPT ![r] =
                [IdleReq EXCEPT !.stage = rq.stage, !.via = "route",
                                !.pc = "answered"]]
         /\ UNCHANGED <<units, sem, gath>>

\* the extract endpoint after `await run_phase<k>(...)`: a failure is rolled
\* back and answered 500; a result is saved, then the database is synced,
\* and a Stage 2-4 run of a job without restaurant row raises "Job not
\* found" into the same except clause after its file has been written
RouteTailKeepPartial(r, rq, out) ==
    /\ Release(r, rq)
    /\ IF out.kind = "exc"
       THEN /\ resp' = Response(rq.stage, 500, out)
            /\ files' = SaveOutput(files, rq.stage, [pages |-> rq.acc])
            /\ UNCHANGED db
       ELSE /\ files' = SaveOutput(files, rq.stage, out.doc)
            /\ IF rq.stage # 1 /\ ~db.restaurant.exists
               THEN /\ resp' = Response(rq.stage, 500, out)
                    /\ UNCHANGED db
               ELSE /\ resp' = Response(rq.stage, 200, out)
                    /\ db' = ExtractCommit(db, rq.stage, out.doc)
RouteTail(r, rq, out) ==
    /\ Release(r, rq)
    /\ IF out.kind = "exc"
       THEN /\ resp' = Response(rq.stage, 500, out)
            /\ UNCHANGED <<files, db>>
       ELSE /\ files' = SaveOutput(files, rq.stage, out.doc)
            /\ IF rq.stage # 1 /\ ~db.restaurant.exists
               THEN /\ resp' = Response(rq.stage, 500, out)
                    /\ UNCHANGED db
               ELSE /\ resp' = Response(rq.stage, 200, out)
                    /\ db' = ExtractCommit(db, rq.stage, out.doc)

\* extract_all_pages returns the document or raises, to run_phase<k> and,
\* for a request, on into the endpoint
Return(r, rq, out) ==
    IF rq.via = "route"
    THEN RouteTail(r, rq, out)
    ELSE /\ req' = [req EXCEPT ![r] =
                [rq EXCEPT !.pc = IF out.kind = "doc" THEN "returned" ELSE "raised",
                           !.out = out]]
         /\ UNCHANGED <<units, sem, gath, files, db, resp>>

DocOut(pages) == [kind |-> "doc", doc |-> [pages |-> pages], exc |-> NoError]
\* the request.data of a PUT request that was answered 200
PutOut(data) == [kind |-> "put", doc |-> data, exc |-> NoError]
\* HTTPException(400, "Invalid payload structure"), re-raised as a 500
InvalidPayload == [kind |-> "invalid_payload", attempt |-> -1]
ExcOut(e) == [kind |-> "exc", doc |-> NoDoc, exc |-> e]

\* the driver of Stages 2-4 at the head of its for loop, about to take the
\* page at position p: past the last page it returns the document, else it
\* looks up images[page_number - 1], validates the page's categories and
\* awaits the page's bounded run
EnterPage(r, rq, p) ==
    IF p > LoopLen(rq)
    THEN Return(r, rq, DocOut(rq.acc))
    ELSE IF ~PyIndexOK(rq.images, rq.items.pages[p].page_number - 1)
    THEN Return(r, rq, ExcOut(IndexError))
    ELSE IF ~PageValid(rq, p)
    THEN Return(r, rq, ExcOut(UpstreamInvalid))
    ELSE /\ StartGather(r, LoopInputs(rq, p), [rq EXCEPT !.page = p])
         /\ UNCHANGED <<files, db, resp>>

\* extract_all_pages up to its first await of a bounded run
DriverBegin(r) ==
    /\ req[r].pc = "called"
    /\ IF req[r].stage = 1
       THEN /\ StartGather(r, Stage1Inputs(req[r].images), req[r])
            /\ UNCHANGED <<files, db, resp>>
       ELSE EnterPage(r, req[r], 1)
    /\ UNCHANGED limit

\* the driver resumes from `await self._bounded_gather(coros)`: the first
\* failure is raised through extract_all_pages; a result list becomes the
\* Stage 1 document, or the page's entry and the loop goes on.  A task that
\* finishes releases the semaphore, which schedules the next waiter, before
\* gather's callback schedules the driver: the waiter runs first
GatherReturnSkipFailed(r) ==
    /\ req[r].pc = "gather"
    /\ gath[r].st # "pending"
    /\ ~(NextWaiting(units[r]) # 0 /\ CanAcquire(sem[r]))
    /\ IF req[r].stage = 1
       THEN IF gath[r].st = "exc"
            THEN Return(r, req[r], ExcOut(gath[r].exc))
            ELSE Return(r, req[r], DocOut(gath[r].results))
       ELSE EnterPage(r,
                [req[r] EXCEPT !.acc = Append(@,
                    PageResult(req[r].items.pages[req[r].page].page_number,
                               gath[r].results))],
                req[r].page + 1)
    /\ UNCHANGED limit
GatherReturn(r) ==
    /\ req[r].pc = "gather"
    /\ gath[r].st # "pending"
    /\ ~(NextWaiting(units[r]) # 0 /\ CanAcquire(sem[r]))
    /\ IF gath[r].st = "exc"
       THEN Return(r, req[r], ExcOut(gath[r].exc))
       ELSE IF req[r].stage = 1
       THEN Return(r, req[r], DocOut(gath[r].results))
       ELSE EnterPage(r,
                [req[r] EXCEPT !.acc = Append(@,
                    PageResult(req[r].items.pages[req[r].page].page_number,
                               gath[r].results))],
                req[r].page + 1)
    /\ UNCHANGED limit

\* ------------------------------------------------------ specifications
\* documents as the stages produce them, for a PDF of Len(shape) pages with
\* shape[p] categories on page p
RECURSIVE Sum(_)
Sum(q) == IF q = <<>> THEN 0 ELSE Head(q) + Sum(Tail(q))

Shapes(n) ==
    {q \in UNION {[1..k -> 0..n] : k \in 1..MaxPages} : Sum(q) <= n}

CatSeq(n, has) == [k \in 1..n |-> Cat(k, has, 0)]

Stage1Doc(shape) ==
    [pages |-> [p \in 1..Len(shape) |->
        [has |-> "page", page_number |-> p, data |-> CatSeq(shape[p], "category")]]]

StageDoc(shape, has) ==
    [pages |-> [p \in 1..Len(shape) |-> PageResult(p, CatSeq(shape[p], has))]]

\* the configured limits: the default and small ones
Limits == (1..MaxCap) \cup {MAX_CONCURRENCY}

\* run_phase<k>(...): an extractor built with max_concurrency=None and its
\* extract_all_pages called
Called(stage, images, items, bases, configured) ==
    [IdleReq EXCEPT !.stage = stage, !.pc = "called", !.via = "direct",
                    !.images = images,
                    !.items = items, !.bases = bases,
                    !.max_concurrency = EffectiveConcurrency(0, configured)]

\* the stage runs of at most n units a request can start
RunInputs(configured, n) ==
    {Called(1, k, NoDoc, NoDoc, configured) : k \in 1..n}
    \cup {Called(2, Len(q), Stage1Doc(q), NoDoc, configured) : q \in Shapes(n)}
    \cup {Called(3, Len(q), StageDoc(q, "items"), NoDoc, configured) : q \in Shapes(n)}
    \cup {Called(4, Len(q), StageDoc(q, "items"), StageDoc(q, "base"), configured) :
            q \in Shapes(n)}

InitCommon ==
    /\ limit \in Limits
    /\ units = [r \in Slots |-> <<>>]
    /\ sem = [r \in Slots |-> 0]
    /\ gath = [r \in Slots |-> PendingGather]
    /\ files = NoFiles
    /\ db = EmptyDb
    /\ resp = NoResp

\* one stage run
Init ==
    /\ InitCommon
    /\ \E rq \in RunInputs(limit, MaxUnits) :
          req = [r \in Slots |-> IF r = 1 THEN rq ELSE IdleReq]

\* a stage run in every slot: extract requests served at the same time
InitPair ==
    /\ InitCommon
    /\ req \in [Slots -> RunInputs(limit, MaxPairUnits)]

Next ==
    \E r \in Slots :
        \/ DriverBegin(r)
        \/ GatherReturn(r)
        \/ Admit(r)
        \/ \E i \in 1..MaxUnits : LLMReturn(r, i)
        \/ \E i \in 1..MaxUnits : Wake(r, i)

Spec == Init /\ [][Next]_vars

SpecPair == InitPair /\ [][Next]_vars

\* Phase<k>Extractor(llm_client, pdf_processor, max_concurrency) built with
\* any limit argument (0: None or 0) and its extract_all_pages called
InitLive ==
    /\ InitCommon
    /\ \E rq \in RunInputs(limit, MaxUnits) : \E mc \in 0..MaxCap :
          req = [r \in Slots |->
                    IF r = 1
                    THEN [rq EXCEPT !.max_concurrency =
                                        EffectiveConcurrency(mc, limit)]
                    ELSE IdleReq]

\* the event loop runs every task that is ready, every LLM call returns or
\* fails and every sleep ends
Fairness ==
    \A r \in Slots :
        /\ WF_vars(DriverBegin(r))
        /\ WF_vars(GatherReturn(r))
        /\ WF_vars(Admit(r))
        /\ \A i \in 1..MaxUnits : WF_vars(LLMReturn(r, i)) /\ WF_vars(Wake(r, i))

SpecLive == InitLive /\ [][Next]_vars /\ Fairness

\* the scripts of a Stage 1 run over k pages: a response for every attempt
\* of every unit
Scripts(k) == [1..k -> [1..max_retries(1) -> RespKinds]]

\* the same Stage 1 call made twice against the same scripted stub, each in
\* a slot of its own
InitTwin ==
    /\ InitCommon
    /\ \E k \in 1..MaxUnits : \E sc \in Scripts(k) :
          req = [r \in Slots |->
                    IF r <= 2
                    THEN [Called(1, k, NoDoc, NoDoc, limit) EXCEPT !.script = sc]
                    ELSE IdleReq]

SpecTwin == InitTwin /\ [][Next]_vars

\* run_phase4 called with any Stage 2 and Stage 3 documents: the route passes
\* on what load_json read from phase2_items.json and phase3_bases.json,
\* which are written by different requests
InitZip ==
    /\ InitCommon
    /\ \E q \in Shapes(MaxUnits) : \E q2 \in Shapes(MaxUnits) :
          req = [r \in Slots |->
                    IF r = 1
                    THEN Called(4, Len(q), StageDoc(q, "items"),
                                StageDoc(q2, "base"), limit)
                    ELSE IdleReq]

SpecZip == InitZip /\ [][Next]_vars

\* the document with the category at position i of the page at position p
\* replaced by a malformed record
Corrupt(doc, p, i) ==
    [doc EXCEPT !.pages[p] =
        IF "data" \in DOMAIN @ THEN [@ EXCEPT !.data[i] = Malformed]
        ELSE [@ EXCEPT !.categories[i] = Malformed]]

\* the positions (page, category) of a document of the shape q
Positions(q) ==
    {pi \in (1..Len(q)) \X (1..MaxUnits) : pi[2] <= q[pi[1]]}

\* run_phase<k> called with a stored document one of whose categories is
\* malformed (load_json returns whatever the file holds)
InitReval ==
    /\ InitCommon
    /\ \E q \in Shapes(MaxUnits) : \E pi \in Positions(q) :
       \E rq \in
          {Called(2, Len(q), Corrupt(Stage1Doc(q), pi[1], pi[2]), NoDoc, limit),
           Called(3, Len(q), Corrupt(StageDoc(q, "items"), pi[1], pi[2]), NoDoc, limit),
           Called(4, Len(q), Corrupt(StageDoc(q, "items"), pi[1], pi[2]),
                  StageDoc(q, "base"), limit),
           Called(4, Len(q), StageDoc(q, "items"),
                  Corrupt(StageDoc(q, "base"), pi[1], pi[2]), limit)} :
          req = [r \in Slots |-> IF r = 1 THEN rq ELSE IdleReq]

SpecReval == InitReval /\ [][Next]_vars

\* the 1-based position of images[page_number - 1] in a list of n images
\* (0: IndexError): Python counts a negative index from the end
ImageGiven(n, page_number) ==
    IF ~PyIndexOK(n, page_number - 1) THEN 0
    ELSE IF page_number - 1 >= 0 THEN page_number
    ELSE n + page_number

\* the document with the page_number of the page entry at position p set to num
Renumbered(doc, p, num) == [doc EXCEPT !.pages[p].page_number = num]

\* the values of an edited page_number field
PageNumbers == (0 - MaxPages)..(MaxPages + 1)

\* run_phase<k> called with a stored document one of whose page entries
\* has an edited page_number (the PUT handlers do not look at the field)
InitAddr ==
    /\ InitCommon
    /\ \E q \in Shapes(MaxUnits) : \E p \in 1..Len(q) : \E num \in PageNumbers :
       \E rq \in
          {Called(2, Len(q), Renumbered(Stage1Doc(q), p, num), NoDoc, limit),
           Called(3, Len(q), Renumbered(StageDoc(q, "items"), p, num), NoDoc, limit),
           Called(4, Len(q), Renumbered(StageDoc(q, "items"), p, num),
                  StageDoc(q, "base"), limit)} :
          req = [r \in Slots |-> IF r = 1 THEN rq ELSE IdleReq]

SpecAddr == InitAddr /\ [][Next]_vars

\* ------------------------------------------------------------ endpoints
\* a slot can take a request: nothing of an earlier one is left in it
SlotFree(r) == req[r].pc = "idle"

Serving == {r \in Slots : req[r].pc \in {"called", "gather"}}

\* requests of the followed job are served MaxRequests at a time, each in
\* the first free slot
CanServe(r) ==
    /\ SlotFree(r)
    /\ \A q \in 1..(r - 1) : ~SlotFree(q)
    /\ Cardinality(Serving) < MaxRequests
    /\ Len(db.history) < MaxEvents

\* the slot of a request whose endpoint calls run_phase<k>
Serve(r, rq) ==
    /\ req' = [req EXCEPT ![r] = [rq EXCEPT !.via = "route"]]
    /\ UNCHANGED <<units, sem, gath>>

\* POST /api/phase1/extract: a new job; the upload of n pages is saved and
\* run_phase1 called.  The model follows the newest job until its Stage 1
\* has succeeded
extract_categories(r) ==
    /\ CanServe(r)
    /\ ~files.raw1.exists
    /\ \A k \in Stages : ~files.doc[k].exists
    /\ \E n \in 1..MaxPages :
          /\ files' = [files EXCEPT !.pdf = n]
          /\ Serve(r, Called(1, n, NoDoc, NoDoc, limit))
    /\ UNCHANGED <<limit, db, resp>>

\* the files an extract endpoint of Stage 2-4 loads with load_json
InputFiles(stage) ==
    CASE stage = 2 -> <<files.doc[1]>>
      [] stage = 3 -> <<files.doc[2]>>
      [] stage = 4 -> <<files.doc[2], files.doc[3]>>

\* FileNotFoundError of load_json; HTTPException(404, "PDF not found")
FileNotFound == [kind |-> "file_not_found", attempt |-> -1]
PdfNotFound == [kind |-> "pdf_not_found", attempt |-> -1]

\* POST /api/phase<k>/extract, k = 2..4: load the input documents (a
\* missing one is answered 404), check the PDF (the HTTPException(404)
\* raised for a missing one is caught by the handler's `except Exception`
\* and answered 500), call run_phase<k>
extract_stageUnchecked(r, stage) ==
    LET ins == InputFiles(stage)
    IN  /\ CanServe(r)
        /\ Serve(r, Called(stage, files.pdf, ins[1].doc,
                           IF stage = 4 THEN ins[2].doc ELSE NoDoc, limit))
        /\ UNCHANGED <<limit, files, db, resp>>
extract_stage(r, stage) ==
    LET ins == InputFiles(stage)
    IN  /\ CanServe(r)
        /\ IF \E k \in 1..Len(ins) : ~ins[k].exists
           THEN /\ resp' = Response(stage, 404, ExcOut(FileNotFound))
                /\ UNCHANGED <<req, units, sem, gath>>
           ELSE IF files.pdf = 0
           THEN /\ resp' = Response(stage, 500, ExcOut(PdfNotFound))
                /\ UNCHANGED <<req, units, sem, gath>>
           ELSE /\ Serve(r, Called(stage, files.pdf, ins[1].doc,
                                   IF stage = 4 THEN ins[2].doc ELSE NoDoc, limit))
                /\ UNCHANGED resp
        /\ UNCHANGED <<limit, files, db>>

\* what a client does to the document it got before it puts it back; "new":
\* it puts a document of its own under a job id no extraction has used
EditKinds == {"same", "drop_page", "no_key", "new"}

\* a well-formed document of one page with one category
ClientDoc(stage) ==
    CASE stage = 1 -> Stage1Doc(<<1>>)
      [] stage = 2 -> StageDoc(<<1>>, "items")
      [] stage = 3 -> StageDoc(<<1>>, "base")
      [] stage = 4 -> StageDoc(<<1>>, "addons")

\* the document with its last page entry removed
DropLastPage(doc) ==
    [doc EXCEPT !.pages =
        IF Len(@) = 0 THEN @ ELSE SubSeq(@, 1, Len(@) - 1)]

\* edits of the records: "bad_record" puts a malformed record in place of
\* the first category of the first page, "earlier_schema" a record of the
\* schema of the phase before (a CategoryWithItems record in a phase 3
\* document, a CategoryBase record in a phase 4 document)
RecordKinds == {"bad_record", "earlier_schema"}

\* the schema of the records a stage extracts
StageSchema(stage) ==
    CASE stage = 1 -> "category"
      [] stage = 2 -> "items"
      [] stage = 3 -> "base"
      [] stage = 4 -> "addons"

\* the document with every category of its first page that has any
\* replaced by the record rec
WithRecord(doc, rec) ==
    IF Len(doc.pages) = 0 THEN doc
    ELSE [doc EXCEPT !.pages[1] =
            IF "data" \in DOMAIN @
            THEN [@ EXCEPT !.data = [i \in 1..Len(@) |-> rec]]
            ELSE [@ EXCEPT !.categories = [i \in 1..Len(@) |-> rec]]]

Edited(stage, doc, kind) ==
    CASE kind = "drop_page" -> DropLastPage(doc)
      [] kind = "new" -> ClientDoc(stage)
      [] kind = "bad_record" -> WithRecord(doc, Malformed)
      [] kind = "earlier_schema" ->
            IF stage = 1 THEN doc
            ELSE WithRecord(doc, Cat(1, StageSchema(stage - 1), 0))
      [] OTHER -> doc

\* the schema a PUT handler validates every category of the request with:
\* Categories (phase 1), CategoryWithItems (phases 2 and 3); phase 4 looks
\* for request.data["categories"], which a document of pages does not have,
\* and validates nothing
EditSchema(stage) ==
    CASE stage = 1 -> "category"
      [] stage = 2 -> "items"
      [] stage = 3 -> "items"
      [] stage = 4 -> "none"

\* the handler's validation of one record: a record of the handler's
\* schema or of a richer one passes; the records the phase's own stage
\* extracts are taken to pass as well (whether a CategoryBase record
\* passes as CategoryWithItems is decided in backend.models.domain)
EditAccepts(stage, rec) ==
    \/ EditSchema(stage) = "none"
    \/ Validated(EditSchema(stage), rec) # Rejected
    \/ rec.has = StageSchema(stage)

\* the handler's validation loop over request.data["pages"]
EditValid(stage, data) ==
    \A p \in 1..Len(data.pages) :
        LET cats == IF "data" \in DOMAIN data.pages[p]
                    THEN data.pages[p].data ELSE data.pages[p].categories
        IN  \A i \in 1..Len(cats) : EditAccepts(stage, cats[i])

\* pydantic ValidationError raised by the handler's validation
EditInvalid == [kind |-> "edit_invalid", attempt |-> -1]

\* PUT /api/phase<k>/{job_id}: the structure check (a page without its
\* "data"/"categories" key raises HTTPException(400), which the handler's
\* own except clause turns into a 500), then the file is replaced by the
\* request's document and the database synced.  The requests modelled put
\* back the stored document, possibly with the last page removed, or create
\* the file of a job that has no PDF
\* storage.save_json(storage.phase<k>_path(job_id), request.data)
SaveEditMerge(f, stage, data) ==
    [f EXCEPT !.doc[stage] =
        File([pages |-> data.pages \o
                SubSeq(@.doc.pages, Len(data.pages) + 1, Len(@.doc.pages))])]
SaveEdit(f, stage, data) == [f EXCEPT !.doc[stage] = File(data)]

update_stage(stage, kind) ==
    /\ IF kind = "new"
       THEN ~files.doc[stage].exists /\ files.pdf = 0
       ELSE files.doc[stage].exists
    /\ Len(db.history) < MaxEvents
    /\ IF kind = "no_key" /\ stage # 4 /\ Len(files.doc[stage].doc.pages) > 0
       THEN /\ resp' = Response(stage, 500, ExcOut(InvalidPayload))
            /\ UNCHANGED <<files, db>>
       ELSE LET data == Edited(stage, files.doc[stage].doc, kind)
            IN  IF ~EditValid(stage, data)
                THEN /\ resp' = Response(stage, 500, ExcOut(EditInvalid))
                     /\ UNCHANGED <<files, db>>
                ELSE /\ files' = SaveEdit(files, stage, data)
                     /\ db' = UpdateCommit(db, stage, data)
                     /\ resp' = Response(stage, 200, PutOut(data))
    /\ UNCHANGED <<limit, req, units, sem, gath>>

InitJob ==
    /\ InitCommon
    /\ req = [r \in Slots |-> IdleReq]

NextJob ==
    \/ Next
    \/ \E r \in Slots : extract_categories(r)
    \/ \E r \in Slots : \E stage \in 2..4 : extract_stage(r, stage)
    \/ \E stage \in Stages : \E kind \in EditKinds : update_stage(stage, kind)

SpecJob == InitJob /\ [][NextJob]_vars

\* the state of the job whose Stage 1 extraction of n pages has answered
\* with doc and whose Stage 2 extraction has then been requested twice
InitSnapOf(n, doc) ==
    /\ files = SaveOutput([NoFiles EXCEPT !.pdf = n], 1, doc)
    /\ db = ExtractCommit(EmptyDb, 1, doc)
    /\ resp = Response(1, 200, DocOut(doc.pages))
    /\ units = [r \in Slots |-> <<>>]
    /\ sem = [r \in Slots |-> 0]
    /\ gath = [r \in Slots |-> PendingGather]
    /\ req = [r \in Slots |->
                [Called(2, n, doc, NoDoc, MAX_CONCURRENCY) EXCEPT !.via = "route"]]

\* the followed job after its Stage 1 extraction of an n-page PDF, with
\* POST /api/phase2/extract received twice: both requests have loaded
\* phase1_categories_reviewed.json and called run_phase2
InitSnap ==
    /\ limit = MAX_CONCURRENCY
    /\ \E n \in 1..MaxPages :
          InitSnapOf(n, Stage1Doc([p \in 1..n |-> MaxFound]))

\* the two requests run side by side while the reviewed documents are put
\* back and, once a request has answered, further stages are extracted
NextSnap ==
    \/ Next
    \/ \E r \in Slots : \E stage \in 2..4 : extract_stage(r, stage)
    \/ \E stage \in Stages : \E kind \in {"same", "drop_page"} :
          update_stage(stage, kind)

SpecSnap == InitSnap /\ [][NextSnap]_vars

\* ------------------------------------------------------ GET and DELETE
\* GetDataResponse(job_id, data); the success body of delete_job
GetOut(doc) == [kind |-> "get", doc |-> doc, exc |-> NoError]
GetMissing == [kind |-> "get", doc |-> NoDoc, exc |-> FileNotFound]
DeletedOut == [kind |-> "deleted", doc |-> NoDoc, exc |-> NoError]
JobNotFound == [kind |-> "job_not_found", attempt |-> -1]

\* the file a GET endpoint loads: phase 1 tries the reviewed file first and
\* falls back to the raw one; the other phases have one file
LoadedRawFirst(f, stage) ==
    IF stage = 1 THEN (IF f.raw1.exists THEN f.raw1 ELSE f.doc[1])
    ELSE f.doc[stage]
Loaded(f, stage) ==
    IF stage = 1 THEN (IF f.doc[1].exists THEN f.doc[1] ELSE f.raw1)
    ELSE f.doc[stage]

\* GET /api/phase<k>/{job_id}: the stored document, or 404 when load_json
\* raises FileNotFoundError; the database is not consulted
get_stage(stage) ==
    /\ resp' = IF Loaded(files, stage).exists
               THEN Response(stage, 200, GetOut(Loaded(files, stage).doc))
               ELSE Response(stage, 404, GetMissing)
    /\ UNCHANGED <<limit, req, units, sem, gath, files, db>>

\* db.delete(restaurant); db.commit(): the restaurants row and, by the
\* cascade of its relationships, the phase_data and extraction_history rows
DeletedDb == EmptyDb

\* DELETE /api/jobs/{job_id}: 404 without a restaurants row, else the rows
\* are deleted; the files of the job are not touched
delete_job ==
    /\ IF ~db.restaurant.exists
       THEN /\ resp' = Response(0, 404, ExcOut(JobNotFound))
            /\ UNCHANGED <<files, db>>
       ELSE /\ db' = DeletedDb
            /\ resp' = Response(0, 200, DeletedOut)
            /\ UNCHANGED files
    /\ UNCHANGED <<limit, req, units, sem, gath>>

\* the followed job after its Stage 1 extraction of an n-page PDF
InitDel ==
    /\ limit = MAX_CONCURRENCY
    /\ units = [r \in Slots |-> <<>>]
    /\ sem = [r \in Slots |-> 0]
    /\ gath = [r \in Slots |-> PendingGather]
    /\ req = [r \in Slots |-> IdleReq]
    /\ \E n \in 1..MaxPages :
          LET doc == Stage1Doc([p \in 1..n |-> MaxFound])
          IN  /\ files = SaveOutput([NoFiles EXCEPT !.pdf = n], 1, doc)
              /\ db = ExtractCommit(EmptyDb, 1, doc)
              /\ resp = Response(1, 200, DocOut(doc.pages))

\* the later stages are extracted, the documents read, the job deleted
NextDel ==
    \/ Next
    \/ \E r \in Slots : \E stage \in 2..4 : extract_stage(r, stage)
    \/ \E stage \in Stages : get_stage(stage)
    \/ delete_job

SpecDel == InitDel /\ [][NextDel]_vars

\* a job from its upload on: Stage 1 is extracted, its document read,
\* edited and put back, and Stage 2 extracted
NextDoc ==
    \/ Next
    \/ \E r \in Slots : extract_categories(r)
    \/ \E r \in Slots : extract_stage(r, 2)
    \/ \E kind \in EditKinds : update_stage(1, kind)
    \/ get_stage(1)

SpecDoc == InitJob /\ [][NextDoc]_vars

\* the later stages of a job are extracted and their documents put back
\* as they are or with records changed
NextEdit ==
    \/ Next
    \/ \E r \in Slots : \E stage \in 2..4 : extract_stage(r, stage)
    \/ \E stage \in Stages : \E kind \in {"same"} \cup RecordKinds :
          update_stage(stage, kind)

SpecEdit == InitDel /\ [][NextEdit]_vars

\* -------------------------------------------------------------- get_job
\* d.get(key, default)
Get(d, key, default) == IF key \in DOMAIN d THEN d[key] ELSE default

\* for g in groups: item_count += len(g.get("items", []))
ItemsIn(groups) ==
    Sum([g \in 1..Len(groups) |-> Len(Get(groups[g], "items", <<>>))])

\* the two loops of get_job over one category
CategoryItemsOnly(cat) == ItemsIn(Get(cat, "category_items", <<>>))
CategoryItems(cat) ==
    ItemsIn(Get(cat, "category_items", <<>>))
        + ItemsIn(Get(cat, "subcategory_items", <<>>))

\* get_job's count over restaurant.json: pages, page.get("categories", [])
item_count(json) ==
    LET pages == Get(json, "pages", <<>>)
    IN  Sum([p \in 1..Len(pages) |->
            LET categories == Get(pages[p], "categories", <<>>)
            IN  Sum([c \in 1..Len(categories) |-> CategoryItems(categories[c])])])

category_count(json) ==
    LET pages == Get(json, "pages", <<>>)
    IN  Sum([p \in 1..Len(pages) |-> Len(Get(pages[p], "categories", <<>>))])

\* JobDetailResponse
JobDetail(row) ==
    [kind |-> "job", current_phase |-> row.phase, status |-> row.status,
     category_count |-> IF row.json = NoDoc THEN 0 ELSE category_count(row.json),
     item_count |-> IF row.json = NoDoc THEN 0 ELSE item_count(row.json)]

\* GET /api/jobs/{job_id}
get_job ==
    /\ resp' = IF ~db.restaurant.exists
               THEN Response(0, 404, NoOut)
               ELSE Response(0, 200, JobDetail(db.restaurant))
    /\ resp' # resp
    /\ UNCHANGED <<limit, req, units, sem, gath, files, db>>

\* a grouping of a category (CategoryItems / subcategory) with n items
Grouping(n) == [items |-> [k \in 1..n |-> "item"]]
Groupings ==
    {<<>>} \cup {<<Grouping(n)>> : n \in 0..MaxItems}
           \cup {<<Grouping(MaxItems), Grouping(1)>>}
\* the subcategories of a category: none, or one of 1 or of MaxItems items
SubGroupings == {<<>>} \cup {<<Grouping(n)>> : n \in {1, MaxItems}}

\* CategoryWithItems / CategoryItemAddons records with their two groupings
CountedCats(has) ==
    {[name |-> 1, has |-> has, base |-> 0, category_items |-> ci,
      subcategory_items |-> si] : ci \in Groupings, si \in SubGroupings}

\* Stage 2 and Stage 4 documents of up to n categories, all on one page or
\* one to a page
CountedDocs(has, n) ==
    UNION {{[pages |-> <<PageResult(1, cs)>>] : cs \in [1..k -> CountedCats(has)]}
           \cup {[pages |-> [p \in 1..k |-> PageResult(p, <<cs[p]>>)]] :
                    cs \in [1..k -> CountedCats(has)]} : k \in 0..n}

\* the restaurants row of a job after an extraction or an edit of phase k:
\* restaurant.json is the document of the phase written last
JobRows ==
    {Row(1, Stage1Doc(q), CompleteStatus(1)) : q \in Shapes(MaxUnits)}
    \cup {Row(2, d, CompleteStatus(2)) : d \in CountedDocs("items", MaxCounted)}
    \cup {Row(3, StageDoc(q, "base"), CompleteStatus(3)) : q \in Shapes(MaxUnits)}
    \cup {Row(4, d, CompleteStatus(4)) : d \in CountedDocs("addons", 1)}

InitCount ==
    /\ InitCommon
    /\ limit = MAX_CONCURRENCY
    /\ req = [r \in Slots |-> IdleReq]

\* the row of the job is written (extract and PUT endpoints, jobs.py
\* delete_job), then read by get_job
set_job ==
    /\ resp = NoResp
    /\ db = EmptyDb
    /\ \E row \in JobRows : db' = [db EXCEPT !.restaurant = row]
    /\ UNCHANGED <<limit, req, units, sem, gath, files, resp>>

NextCount == set_job \/ get_job

SpecCount == InitCount /\ [][NextCount]_vars

\* ------------------------------------------------------------- claims
\* every unit task of the latest bounded run of every slot
UnitIds == {ri \in Slots \X (1..MaxUnits) : ri[2] <= Len(units[ri[1]])}
UnitOf(ri) == units[ri[1]][ri[2]]
StageOf(ri) == req[ri[1]].stage

\* the retry budgets as the specification states them
StatedBudget(stage) == IF stage = 2 THEN 3 ELSE 2

\* the units of slot r between admission by the semaphore and completion
Active(r) == {i \in 1..Len(units[r]) : units[r][i].st \in {"calling", "sleeping"}}

\* C1: a unit whose every LLM response was invalid JSON makes exactly 2 LLM
\* calls in Stage 1, 3 in Stage 2, 2 in Stages 3 and 4 and then fails, and the
\* failure carries the parse error of the last attempt
C1_RetryExhaustion ==
    \A ri \in UnitIds :
        LET u == UnitOf(ri)
            m == StatedBudget(StageOf(ri))
        IN  u.allBad =>
              /\ u.st # "done"
              /\ u.calls <= m
              /\ (u.st = "sleeping" => u.calls < m)
              /\ (u.st = "failed" => u.calls = m /\ u.err = JsonError(m - 1))

C1_Witness ==
    \E ri \in UnitIds :
        /\ StageOf(ri) = 2
        /\ UnitOf(ri).st = "failed"
        /\ UnitOf(ri).allBad
        /\ UnitOf(ri).calls = 3
        /\ UnitOf(ri).err = JsonError(2)

\* C2: at every moment at most K units of a bounded run are active, K the
\* configured limit, whatever the number of units and also while units retry
C2_ConcurrencyBound ==
    \A r \in Slots : Cardinality(Active(r)) <= limit

C2_Witness ==
    \E r \in Slots :
        /\ Cardinality(Active(r)) = limit
        /\ \E i \in 1..Len(units[r]) : units[r][i].st = "waiting"
        /\ \E i \in Active(r) : units[r][i].attempt >= 1

\* the categories of the page at position p of the document a stage reads
InputCats(rq, p) ==
    IF rq.stage = 2 THEN rq.items.pages[p].data ELSE rq.items.pages[p].categories

\* the number of unit results a returned document holds
DocUnits(stage, doc) ==
    IF stage = 1 THEN Len(doc.pages)
    ELSE Sum([p \in 1..Len(doc.pages) |-> Len(doc.pages[p].categories)])

\* C3: when every unit of a bounded run succeeds, position i of the returned
\* sequence holds the result of the unit submitted at position i, in whatever
\* order the units completed; so entry i of a returned document was
\* extracted from input i
C3_OrderPreserved ==
    \A r \in Slots :
        /\ gath[r].st = "result" =>
              /\ Len(gath[r].results) = Len(units[r])
              /\ \A i \in 1..Len(units[r]) : gath[r].results[i] = units[r][i].res
        /\ req[r].pc = "returned" =>
              LET doc == req[r].out.doc
              IN  IF req[r].stage = 1
                  THEN \A i \in 1..Len(doc.pages) : doc.pages[i].page_number = i
                  ELSE \A p \in 1..Len(doc.pages) :
                       \A i \in 1..Len(doc.pages[p].categories) :
                          /\ doc.pages[p].categories[i].name = InputCats(req[r], p)[i].name
                          /\ req[r].stage = 4 =>
                               doc.pages[p].categories[i].base =
                                 req[r].bases.pages[p].categories[i].name

\* a run returned although its last-submitted unit completed first
C3_Witness ==
    \E r \in Slots :
        /\ req[r].pc = "returned"
        /\ Len(units[r]) >= 2
        /\ gath[r].first = Len(units[r])

\* C4: once a unit has exhausted its retries the stage run returns no
\* document: it raises, and what it raises is the failure of the first unit
\* that failed; a document a stage returns holds the result of every unit
\* that was submitted
C4_NoSilentSkip ==
    \A r \in Slots :
        /\ (\E i \in 1..Len(units[r]) : units[r][i].st = "failed") =>
              /\ req[r].pc \in {"gather", "raised"}
              /\ gath[r].st = "exc"
              /\ units[r][gath[r].by].st = "failed"
              /\ gath[r].exc = units[r][gath[r].by].err
              /\ req[r].pc = "raised" => req[r].out = [kind |-> "exc", doc |-> NoDoc,
                                                      exc |-> gath[r].exc]
        /\ req[r].pc = "returned" =>
              /\ req[r].out.kind = "doc"
              /\ DocUnits(req[r].stage, req[r].out.doc) = req[r].nsub
              /\ \A i \in 1..Len(units[r]) : units[r][i].st = "done"

\* a run raised a unit's failure although a sibling had succeeded
C4_Witness ==
    \E r \in Slots :
        /\ req[r].pc = "raised"
        /\ req[r].out.exc.kind \in {"json", "validation", "provider"}
        /\ \E i \in 1..Len(units[r]) : units[r][i].st = "done"

\* C5 (as claimed): once a bounded run has raised to its caller no sibling
\* unit issues a further LLM call
C5_TeardownOnFailure ==
    [][\A r \in Slots :
          (req[r].pc = "raised" /\ req'[r].pc = "raised") =>
              \A i \in 1..Len(units[r]) : units'[r][i].calls = units[r][i].calls]_vars

\* the LLM calls outstanding in the process
Outstanding == {ri \in UnitIds : UnitOf(ri).st = "calling"}

\* C6 (as claimed): at every moment the number of outstanding LLM calls in
\* the process is at most the configured limit, also while two stage runs
\* execute at the same time
C6_ProcessWideBound == Cardinality(Outstanding) <= limit

\* C10 (as claimed): the document a stage run of a job returns has one
\* entry per page of the job's PDF, and the entry at index i has
\* page_number i+1 (1-based positions here: position p has page_number p)
Aligned(doc, n) ==
    /\ Len(doc.pages) = n
    /\ \A p \in 1..Len(doc.pages) : doc.pages[p].page_number = p
C10_PositionalAlignment ==
    resp.out.kind = "doc" => Aligned(resp.out.doc, files.pdf)

\* C7: whatever mix of JSON, validation and provider failures its attempts
\* meet, a unit makes at most its stage's budget of LLM calls (2, 3, 2, 2),
\* it sleeps only when a further attempt follows, and it fails only on the
\* last attempt of the budget: every earlier failure was retried
C7_UniformRetry ==
    \A ri \in UnitIds :
        LET u == UnitOf(ri)
            m == StatedBudget(StageOf(ri))
        IN  /\ u.calls <= m
            /\ (u.st = "sleeping" => u.calls < m)
            /\ (u.st = "failed" =>
                  /\ u.calls = m
                  /\ u.err.kind \in {"json", "validation", "provider"}
                  /\ u.err.attempt = m - 1)

\* a unit on its last attempt after a provider failure, not all of its
\* failures being JSON failures
C7_Witness ==
    \E ri \in UnitIds :
        /\ StageOf(ri) = 2
        /\ UnitOf(ri).st = "calling"
        /\ UnitOf(ri).attempt = 2
        /\ UnitOf(ri).last_error = ProviderError(1)

\* C8: a unit returns the record of the first attempt whose response parses
\* and validates and makes no LLM call after it; a unit that fails raises the
\* failure of its final attempt, never an earlier one's or the generic error
C8_UnitOutcome ==
    \A ri \in UnitIds :
        LET u == UnitOf(ri)
        IN  /\ (u.firstOk # -1 => u.st = "done")
            /\ (u.st = "done" =>
                  /\ u.firstOk # -1
                  /\ u.calls = u.firstOk + 1
                  /\ u.res.has # "none"
                  /\ StageOf(ri) # 1 => u.res = Payload(StageOf(ri), u.input, 0))
            /\ (u.st = "failed" =>
                  /\ u.err.kind # "generic"
                  /\ u.err.attempt = u.calls - 1
                  /\ u.firstOk = -1)

\* one unit succeeded on a retry, a sibling failed after earlier failures
C8_Witness ==
    \E ri, rj \in UnitIds :
        /\ UnitOf(ri).st = "done"
        /\ UnitOf(ri).firstOk >= 1
        /\ UnitOf(rj).st = "failed"
        /\ UnitOf(rj).err.attempt >= 1

\* C9: a unit has slept exactly one delay of 1 time unit per attempt that was
\* followed by another: none before the first attempt, none after a success
\* and none after the final failed attempt
C9_Backoff ==
    \A ri \in UnitIds :
        LET u == UnitOf(ri)
        IN  CASE u.st = "waiting" -> u.delay = 0 /\ u.calls = 0
              [] u.st = "calling" -> u.delay = (u.calls - 1) * 1
              [] u.st = "sleeping" ->
                    u.delay = u.calls * 1 /\ u.calls < StatedBudget(StageOf(ri))
              [] OTHER -> u.delay = (u.calls - 1) * 1

\* a unit that succeeded on its third attempt, after two delays
C9_Witness ==
    \E ri \in UnitIds :
        /\ UnitOf(ri).st = "done"
        /\ UnitOf(ri).calls = 3
        /\ UnitOf(ri).delay = 2

\* the two documents have as many pages, and page by page as many categories
SameShape(a, b) ==
    /\ Len(a.pages) = Len(b.pages)
    /\ \A p \in 1..Len(a.pages) :
          Len(a.pages[p].categories) = Len(b.pages[p].categories)

\* C11 (as claimed): Stage 4 returns a document only for a Stage 2 and a
\* Stage 3 document of the same shape: it never returns one built from the
\* common prefix of mismatched documents
C11_MismatchGuard ==
    \A r \in Slots :
        (req[r].stage = 4 /\ req[r].pc = "returned") =>
            SameShape(req[r].items, req[r].bases)

\* the Stage 2 document a and the Stage 3 document b pair up: as many pages
\* with the same page numbers, and every base made from the category at its
\* position
PairAligned(a, b) ==
    /\ Len(a.pages) = Len(b.pages)
    /\ \A p \in 1..Len(b.pages) :
          /\ a.pages[p].page_number = b.pages[p].page_number
          /\ Len(a.pages[p].categories) = Len(b.pages[p].categories)
          /\ \A i \in 1..Len(b.pages[p].categories) :
                b.pages[p].categories[i].name = a.pages[p].categories[i].name

\* C12 (as claimed): whatever extract and edit requests the API has accepted
\* for the job, the Stage 2 and Stage 3 documents a Stage 4 run was given
\* are aligned page by page and category by category
C12_Stage4InputsAligned ==
    \A r \in Slots :
        (req[r].stage = 4 /\ req[r].via = "route" /\ req[r].pc \in {"called", "gather"})
            => PairAligned(req[r].items, req[r].bases)

\* the input documents of the stage and the job's PDF are persisted
InputsPersisted(stage) ==
    /\ files.pdf # 0
    /\ \A k \in 1..Len(InputFiles(stage)) : InputFiles(stage)[k].exists

\* the stage run of slot r, made for an extract request of Stage 2-4, is in
\* progress or has unit tasks left
RouteRun(r) ==
    /\ req[r].via = "route"
    /\ req[r].stage \in 2..4
    /\ req[r].pc \in {"called", "gather", "answered"}

\* C13: a Stage 2-4 extract request runs its stage (and so issues LLM calls)
\* only with the stage's input documents and the PDF persisted; a request
\* that finds one missing is answered with the failure in the same step,
\* starts no run, issues no LLM call and writes nothing
C13_StageSequencing ==
    /\ [](\A r \in Slots : RouteRun(r) => InputsPersisted(req[r].stage))
    /\ [][(resp' # resp /\ resp'.out.exc.kind \in {"file_not_found", "pdf_not_found"})
            => /\ ~InputsPersisted(resp'.stage)
               /\ UNCHANGED <<req, units, sem, gath, files, db>>]_vars

\* Stage 3 was requested with Stage 1 done and no Stage 2 document, and was
\* answered 404 with nothing running
C13_Witness ==
    /\ resp.stage = 3
    /\ resp.http = 404
    /\ files.doc[1].exists
    /\ ~files.doc[2].exists
    /\ \A r \in Slots : units[r] = <<>>

\* every category of every page of the document passes validation
DocValid(doc) ==
    \A p \in 1..Len(doc.pages) :
        LET cats == IF "data" \in DOMAIN doc.pages[p]
                    THEN doc.pages[p].data ELSE doc.pages[p].categories
        IN  \A i \in 1..Len(cats) : model_validate(cats[i])

\* C14 (as claimed): a stage run whose input document has a page that fails
\* validation issues no LLM call
C14_UpstreamRevalidation ==
    \A r \in Slots :
        (req[r].stage \in 2..4 /\ ~(DocValid(req[r].items) /\ DocValid(req[r].bases)))
            => \A i \in 1..Len(units[r]) : units[r][i].calls = 0

\* the units a stage run is to make of its input: the pages of the PDF in
\* Stage 1, the categories of all pages of the input document in Stages 2, 3
StageUnits(rq) ==
    IF rq.stage = 1 THEN rq.images
    ELSE Sum([p \in 1..Len(rq.items.pages) |-> Len(InputCats(rq, p))])

\* C15: the units of a bounded run of Stage 1 are the pages of the PDF, one
\* each, and those of Stages 2 and 3 the categories of the input page, one
\* each and in order; a unit whose first attempt succeeds makes one LLM
\* call; a returned run has submitted one unit per page (Stage 1) or per
\* input category (Stages 2, 3), and its output page p lists as many
\* categories as the input page p, in the same order
C15_UnitDecomposition ==
    \A r \in Slots :
        (req[r].stage \in 1..3 /\ req[r].via = "direct") =>
            LET rq == req[r]
                us == units[r]
            IN  /\ (rq.pc = "gather" /\ rq.stage = 1) =>
                      /\ Len(us) = rq.images
                      /\ \A i \in 1..Len(us) : us[i].input.page = i
                /\ (rq.pc = "gather" /\ rq.stage # 1) =>
                      /\ Len(us) = Len(InputCats(rq, rq.page))
                      /\ \A i \in 1..Len(us) :
                            /\ us[i].input.cat = InputCats(rq, rq.page)[i]
                            /\ us[i].input.page = rq.items.pages[rq.page].page_number
                /\ \A i \in 1..Len(us) : us[i].firstOk = 0 => us[i].calls = 1
                /\ rq.pc = "returned" =>
                      /\ rq.nsub = StageUnits(rq)
                      /\ rq.stage = 1 => Len(rq.out.doc.pages) = rq.images
                      /\ rq.stage # 1 =>
                            /\ Len(rq.out.doc.pages) = Len(rq.items.pages)
                            /\ \A p \in 1..Len(rq.out.doc.pages) :
                                  LET outc == rq.out.doc.pages[p].categories
                                  IN  /\ Len(outc) = Len(InputCats(rq, p))
                                      /\ \A i \in 1..Len(outc) :
                                            outc[i].name = InputCats(rq, p)[i].name

\* a Stage 2 run over two pages with one category each has returned, every
\* unit having succeeded with its only call
C15_Witness ==
    \E r \in Slots :
        /\ req[r].stage = 2
        /\ req[r].pc = "returned"
        /\ Len(req[r].items.pages) = 2
        /\ req[r].nsub = 2
        /\ \A i \in 1..Len(units[r]) : units[r][i].calls = 1

\* C16 (as claimed): while a stage run executes, all units of the stage,
\* across all pages, have been launched, so that only the cap limits how
\* many of them are active
C16_StageWideFanOut ==
    \A r \in Slots :
        req[r].pc = "gather" => req[r].nsub = StageUnits(req[r])

\* the runs of slots a and b were called with the same arguments against
\* the same scripted stub, and both are over
SameRunSameResponses(a, b) ==
    /\ req[a].pc \in {"returned", "raised"}
    /\ req[b].pc \in {"returned", "raised"}
    /\ req[a].stage = req[b].stage
    /\ req[a].images = req[b].images
    /\ req[a].items = req[b].items
    /\ req[a].bases = req[b].bases
    /\ req[a].max_concurrency = req[b].max_concurrency
    /\ req[a].script # NoScript
    /\ req[a].script = req[b].script

\* C17 (as claimed): two runs of a stage over the same input in which every
\* unit gets the same response on every attempt end the same way: with the
\* same document or with the same failure
C17_Deterministic ==
    \A a \in Slots : \A b \in Slots :
        SameRunSameResponses(a, b) => req[a].out = req[b].out

\* the stored documents of the job
Stored == <<files.raw1, files.doc>>

C19_WholeDocumentReplacement ==
    [][(/\ resp'.out.kind = "put"
        /\ resp'.http = 200
        /\ UNCHANGED <<req, units, sem, gath>>)
       => /\ files'.doc[resp'.stage] = File(resp'.out.doc)
          /\ \A j \in Stages \ {resp'.stage} : files'.doc[j] = files.doc[j]
          /\ files'.raw1 = files.raw1
          /\ files'.pdf = files.pdf]_vars

\* a PUT has replaced a stored document of two pages by one of fewer pages
\* while the document of another phase is in store
C19_Witness ==
    /\ resp.out.kind = "put"
    /\ resp.http = 200
    /\ files.pdf = 2
    /\ files.doc[resp.stage] = File(resp.out.doc)
    /\ Len(resp.out.doc.pages) = 1
    /\ \E j \in Stages \ {resp.stage} :
          files.doc[j].exists /\ Len(files.doc[j].doc.pages) = 2

\* the items of a document, each named by its page, its category, the kind
\* and the index of its grouping and its place in the grouping
DocCategories(page) ==
    IF "categories" \in DOMAIN page THEN page.categories ELSE page.data
GroupingsOf(cat, key) == IF key \in DOMAIN cat THEN cat[key] ELSE <<>>
DocItems(json) ==
    UNION {UNION {UNION {UNION {
        {<<p, c, key, g, i>> :
            i \in 1..Len(GroupingsOf(DocCategories(json.pages[p])[c], key)[g].items)} :
        g \in 1..Len(GroupingsOf(DocCategories(json.pages[p])[c], key))} :
        key \in {"category_items", "subcategory_items"}} :
        c \in 1..Len(DocCategories(json.pages[p]))} :
        p \in 1..Len(json.pages)}

\* C20: the item count reported for a job is the number of items of its
\* current document: over every category of every page, the items of all
\* category-level groupings plus the items of all subcategory groupings
C20_ItemCounting ==
    resp.out.kind = "job" =>
        resp.out.item_count = Cardinality(DocItems(db.restaurant.json))

\* a job answered with 5 items for a category of 2 category-level items and
\* one subcategory of 3 items
C20_Witness ==
    /\ resp.out.kind = "job"
    /\ resp.out.item_count = 5
    /\ Len(db.restaurant.json.pages) = 1
    /\ Len(db.restaurant.json.pages[1].categories) = 1
    /\ LET cat == db.restaurant.json.pages[1].categories[1]
       IN  /\ Len(cat.category_items) = 1
           /\ Len(cat.category_items[1].items) = 2
           /\ Len(cat.subcategory_items) = 1
           /\ Len(cat.subcategory_items[1].items) = 3

\* C21: every failure a unit extractor raises after its retries names the
\* unit it belongs to: its page and, in Stages 2-4, its category, whatever
\* the kind of the failure of the last attempt
C21_FailureIdentity ==
    \A ri \in UnitIds :
        LET u == UnitOf(ri)
            named == ErrorNames(StageOf(ri), u.err, u.input)
        IN  u.st = "failed" =>
              /\ named.page = u.input.page
              /\ (StageOf(ri) # 1 => named.cat = u.input.cat.name)

\* C22 (as claimed): the step that answers an extract request with its
\* document, or a PUT with success, adds exactly one event to the job's
\* history, with the action "extract" or "manual_edit" and the phase of the
\* request
C22_AuditEvents ==
    [][(/\ resp'.http = 200
        /\ resp'.out.kind \in {"doc", "put"}
        /\ (resp' # resp \/ db' # db \/ files' # files))
       => db'.history =
            Append(db.history,
                   Event(resp'.stage,
                         IF resp'.out.kind = "doc" THEN "extract" ELSE "manual_edit"))]_vars

\* the unit tasks of slot r that the step changes
Touched(r) ==
    {i \in 1..Len(units[r]) :
        i > Len(units'[r]) \/ units'[r][i] # units[r][i]}

\* C23: no step of a stage run changes the page images or the input
\* documents the run was called with, so that after the run, returned or
\* raised, they are what they were; and a step of a unit changes that unit
\* alone, besides the semaphore and the future of the bounded run
C23_NoSharedMutation ==
    [][\A r \in Slots :
          req[r].pc \in {"called", "gather", "returned", "raised"} =>
              /\ req'[r].images = req[r].images
              /\ req'[r].items = req[r].items
              /\ req'[r].bases = req[r].bases
              /\ req'[r] = req[r] => Cardinality(Touched(r)) <= 1]_vars

\* a Stage 4 run over two units has returned, one of its units having been
\* retried, with its input documents still in hand
C23_Witness ==
    \E r \in Slots :
        /\ req[r].stage = 4
        /\ req[r].pc = "returned"
        /\ req[r].nsub = 2
        /\ \E i \in 1..Len(units[r]) : units[r][i].calls = 2
        /\ DocUnits(4, req[r].items) = 2
        /\ DocUnits(4, req[r].bases) = 2

\* C24: a record that lacks a required field is rejected wherever it is
\* validated: as an LLM response it fails its attempt and is no unit's
\* result, no entry of a result list and no category of an output page; as
\* a stored record it is no unit's input, and a run that has returned was
\* given valid documents and returns a valid one
C24_SchemaRejection ==
    \A r \in Slots :
        /\ \A i \in 1..Len(units[r]) :
              /\ units[r][i].res # Malformed
              /\ units[r][i].input.cat # Malformed
              /\ units[r][i].input.base # Malformed
              /\ (units[r][i].last_error.kind = "validation" =>
                    units[r][i].st # "done" /\ units[r][i].res = NoResult)
        /\ \A k \in 1..Len(gath[r].results) : gath[r].results[k] # Malformed
        /\ DocValid([pages |-> req[r].acc])
        /\ req[r].pc = "returned" =>
              /\ DocValid(req[r].items)
              /\ DocValid(req[r].bases)
              /\ DocValid(req[r].out.doc)

\* a Stage 4 unit sleeps after a response that failed validation, in a run
\* whose Stage 3 document holds a record that lacks a required field
C24_Witness ==
    \E r \in Slots :
        /\ req[r].stage = 4
        /\ ~DocValid(req[r].bases)
        /\ \E i \in 1..Len(units[r]) :
              /\ units[r][i].st = "sleeping"
              /\ units[r][i].last_error = ValidationError(0)

\* the schemas the later stages validate the output of the stage with
NextSchemas(stage) ==
    CASE stage = 1 -> {InputSchema(2, "items")}
      [] stage = 2 -> {InputSchema(3, "items"), InputSchema(4, "items")}
      [] stage = 3 -> {InputSchema(4, "bases")}
      [] OTHER -> {}

\* the category records of a document
DocRecords(doc) ==
    UNION {{DocCategories(doc.pages[p])[i] : i \in 1..Len(DocCategories(doc.pages[p]))} :
            p \in 1..Len(doc.pages)}

C27_PageSequential ==
    /\ [](\A r \in Slots :
            (req[r].stage \in 2..4 /\ req[r].pc = "gather") =>
                /\ Len(req[r].acc) = req[r].page - 1
                /\ \A i \in 1..Len(units[r]) :
                      units[r][i].input.page =
                          req[r].items.pages[req[r].page].page_number)
    /\ [][\A r \in Slots :
            (/\ req[r].stage \in 2..4
             /\ \E i \in 1..Len(units[r]) : units[r][i].st = "failed")
            => /\ req'[r].page = req[r].page
               /\ Len(units'[r]) = Len(units[r])
               /\ \A i \in 1..Len(units[r]) :
                     units'[r][i].input = units[r][i].input]_vars

\* a run has raised the failure of a unit of its first page, its input
\* document having a second page with a category
C27_Witness ==
    \E r \in Slots :
        /\ req[r].stage \in 2..4
        /\ req[r].pc = "raised"
        /\ req[r].page = 1
        /\ req[r].out.exc.kind \in {"json", "validation", "provider"}
        /\ Len(req[r].items.pages) = 2
        /\ Len(InputCats(req[r], 2)) >= 1

\* C28: the free slots of the semaphore of a bounded run are its capacity
\* less the units between admission and completion, those sleeping between
\* two attempts included; a slot comes free only in the step in which a
\* unit returns or raises, and a unit that has been admitted is never
\* waiting again
C28_SlotHeldAcrossRetries ==
    /\ [](\A r \in Slots :
            req[r].pc \in {"gather", "returned", "raised"} =>
                sem[r] = req[r].max_concurrency - Cardinality(Active(r)))
    /\ [][\A r \in Slots :
            (req'[r] = req[r] /\ req[r].pc = "gather") =>
                /\ sem'[r] > sem[r] =>
                      \E i \in 1..Len(units[r]) :
                          ~Finished(units[r][i]) /\ Finished(units'[r][i])
                /\ \A i \in 1..Len(units[r]) :
                      units[r][i].st # "waiting" => units'[r][i].st # "waiting"]_vars

\* under a limit of 1 a unit sleeps between two attempts while its sibling
\* is still waiting for the slot
C28_Witness ==
    \E r \in Slots :
        /\ req[r].max_concurrency = 1
        /\ sem[r] = 0
        /\ \E i \in 1..Len(units[r]) : units[r][i].st = "sleeping"
        /\ \E i \in 1..Len(units[r]) : units[r][i].st = "waiting"

\* C29 (as claimed): between requests the stored document of every phase
\* and the json of the job's phase_data row of that phase are equal, or
\* there is neither a file nor a row
C29_StoreConsistency ==
    \A k \in Stages :
        IF files.doc[k].exists
        THEN db.phase_data[k].exists /\ db.phase_data[k].json = files.doc[k].doc
        ELSE ~db.phase_data[k].exists

\* C30 (as claimed): the status the client receives is the one raised in
\* the handler: 404 for an extract request of a job whose PDF is missing,
\* 404 for one of a job without restaurants row (its run has returned a
\* document), 400 for a PUT whose pages lack their key
C30_HandlerStatus ==
    /\ resp.out.exc.kind = "pdf_not_found" => resp.http = 404
    /\ resp.out.exc.kind = "invalid_payload" => resp.http = 400
    /\ (resp.out.kind = "doc" /\ resp.http # 200) => resp.http = 404

\* the request in slot r is answered by this step: its endpoint has called
\* run_phase<k> and now returns or raises
Answering(r) ==
    /\ req[r].via = "route"
    /\ req[r].pc \in {"called", "gather"}
    /\ req'[r].pc \notin {"called", "gather"}

\* C31 (as claimed): the step that answers an extract request whose
\* extraction ran, with its document or with a failure, adds one row for
\* the request's phase, with the action "extract", to the job's history
C31_AttemptLogged ==
    [][\A r \in Slots :
          Answering(r) =>
            /\ Len(db'.history) = Len(db.history) + 1
            /\ db'.history[Len(db'.history)].phase = req[r].stage
            /\ db'.history[Len(db'.history)].action = "extract"]_vars

\* this step is a PUT of phase k that is answered with success
Edits(k) ==
    /\ \A r \in Slots : ~Answering(r)
    /\ resp'.http = 200 /\ resp'.out.kind = "put" /\ resp'.stage = k
    /\ (resp' # resp \/ db' # db \/ files' # files)

\* this step answers an extract request of phase k with its document
Extracts(k) ==
    \E r \in Slots : Answering(r) /\ req[r].stage = k /\ resp'.http = 200

\* C32: the phase_data row of a phase, if the job has one, holds the
\* document of the latest request of that phase that succeeded: an extract
\* or an edit answered with success leaves its document in the row, and
\* no other step changes the row -- also while two extract requests of the
\* phase run side by side
C32_LatestSnapshot ==
    [][\A k \in Stages :
          IF Extracts(k) \/ Edits(k)
          THEN db'.phase_data[k].exists =>
                  /\ db'.phase_data[k].json = resp'.out.doc
                  /\ db'.phase_data[k].phase = k
          ELSE db'.phase_data[k] = db.phase_data[k]]_vars

\* one of the two concurrent Stage 2 requests has answered, the stored
\* document was edited, then the other request answered: the row holds the
\* document of the request that answered last
C32_Witness ==
    /\ Len(db.history) = 4
    /\ db.history[2] = Event(2, "extract")
    /\ db.history[3] = Event(2, "manual_edit")
    /\ db.history[4] = Event(2, "extract")
    /\ resp.http = 200 /\ resp.out.kind = "doc" /\ resp.stage = 2
    /\ db.phase_data[2].exists
    /\ db.phase_data[2].json = resp.out.doc
    /\ Len(resp.out.doc.pages) = files.pdf

\* C33 (as claimed): while the success response of delete_job is the last
\* response sent, the job's data is gone: a GET of a phase document is
\* answered 404 and no extract request of the job starts a stage run
C33_DeletedJobGone ==
    [][resp.out.kind = "deleted" =>
          /\ (resp'.out.kind = "get" => resp'.http = 404)
          /\ \A r \in Slots : SlotFree(r) => req'[r].pc = "idle"]_vars

\* this step is a GET of the document of phase k
Gets(k) ==
    /\ resp'.out.kind = "get" /\ resp'.stage = k
    /\ UNCHANGED <<req, units, sem, gath, files, db>>

\* this step is an extract request of phase k calling run_phase<k> in slot r
Calls(r, k) ==
    /\ SlotFree(r)
    /\ req'[r].pc = "called" /\ req'[r].stage = k /\ req'[r].via = "route"

\* C34: a Stage 1 extraction answered with its document leaves that
\* document in the raw and in the reviewed file; the raw file changes in
\* no other step, and an edit of phase 1 answered with success leaves its
\* document in the reviewed file; a GET of phase 1 answers with the
\* reviewed document if there is one, else with the raw one, else 404; a
\* Stage 2 extraction is called with the reviewed document
C34_RawAndReviewed ==
    [][/\ IF Extracts(1)
          THEN /\ files'.raw1 = File(resp'.out.doc)
               /\ files'.doc[1] = File(resp'.out.doc)
          ELSE files'.raw1 = files.raw1
       /\ Edits(1) => files'.doc[1] = File(resp'.out.doc)
       /\ Gets(1) =>
            resp' = IF files.doc[1].exists
                    THEN Response(1, 200, GetOut(files.doc[1].doc))
                    ELSE IF files.raw1.exists
                    THEN Response(1, 200, GetOut(files.raw1.doc))
                    ELSE Response(1, 404, GetMissing)
       /\ \A r \in Slots :
             Calls(r, 2) => files.doc[1].exists /\ req'[r].items = files.doc[1].doc]_vars

\* the reviewed document was edited and differs from the raw one, and a
\* GET of phase 1 has answered with it
C34_Witness ==
    /\ files.raw1.exists /\ files.doc[1].exists
    /\ files.raw1.doc # files.doc[1].doc
    /\ resp = Response(1, 200, GetOut(files.doc[1].doc))

\* the schemas a stored document of phase k is held to: those the stages
\* reading it validate it with and, for phase 4, which no stage reads,
\* CategoryItemAddons
StoredSchemas(k) == IF k = 4 THEN {StageSchema(4)} ELSE NextSchemas(k)

\* C35 (as claimed): every category record of every stored stage document
\* is valid under the schema of its phase, whether an extraction or an
\* edit wrote the document
C35_StoredRecordsValid ==
    \A k \in Stages :
        files.doc[k].exists =>
            \A rec \in DocRecords(files.doc[k].doc) :
            \A schema \in StoredSchemas(k) : Validated(schema, rec) # Rejected

\* the page entries of the input document of the run in slot r
PageEntries(r) == {req[r].items.pages[p] : p \in 1..Len(req[r].items.pages)}

\* C36 (as claimed): in Stages 2-4 every unit is given the image at the
\* 1-based position page_number of its page, a position within the PDF;
\* and a run over a document with a page_number outside 1..N does not
\* return a document
C36_PageImage ==
    \A r \in Slots :
        req[r].stage \in 2..4 =>
            /\ \A i \in 1..Len(units[r]) :
                  /\ units[r][i].input.page \in 1..req[r].images
                  /\ ImageGiven(req[r].images, units[r][i].input.page)
                        = units[r][i].input.page
            /\ req[r].pc = "returned" =>
                  \A pg \in PageEntries(r) : pg.page_number \in 1..req[r].images

\* the rows of the job's history that log an extraction
ExtractEvents == SelectSeq(db.history, LAMBDA ev : ev.action = "extract")

\* C37 (as claimed): the job's restaurants row names the phase extracted
\* last, with the status of that phase completed, and its json is the
\* stored document of that phase
C37_CurrentJobState ==
    db.restaurant.exists =>
        /\ ExtractEvents # <<>>
        /\ db.restaurant.phase = ExtractEvents[Len(ExtractEvents)].phase
        /\ db.restaurant.status = CompleteStatus(db.restaurant.phase)
        /\ files.doc[db.restaurant.phase].exists
        /\ db.restaurant.json = files.doc[db.restaurant.phase].doc

\* the categories of a document, each named by its page and its place
DocCats(json) ==
    UNION {{<<p, c>> : c \in 1..Len(DocCategories(json.pages[p]))} :
            p \in 1..Len(json.pages)}

\* C38 (as claimed): the category count reported for a job is the number of
\* categories over all pages of its current document, whatever its phase
C38_CategoryCounting ==
    resp.out.kind = "job" =>
        resp.out.category_count = Cardinality(DocCats(db.restaurant.json))

====
